---- MODULE Spec2Model ----
(***************************************************************************)
(* remove_bg.py (AlphaCarve) and restore_bg.py (BackgroundFlatten): two    *)
(* command-line scripts that rewrite PNG files in place.                   *)
(*                                                                         *)
(* The model has the per-pixel arithmetic of both scripts and the control  *)
(* flow of both runs (the batch loop with its try/except, and the          *)
(* straight-line script whose exceptions are fatal).  Python floats are    *)
(* IEEE-754 doubles; the two float expressions of remove_bg.py are         *)
(* computed here on 53-bit significands held as limbs, with round-half-    *)
(* even after every operation and truncation in int().                     *)
(***************************************************************************)
EXTENDS Integers, Sequences, FiniteSets, TLC

VARIABLES
    script,     \* which script the process runs
    argv,       \* sys.argv[1:]
    disk,       \* path -> the file stored there
    wr,         \* path -> what a write to that path does
    lowmem,     \* the process runs out of memory while transforming
    pc,         \* position of the process in its script
    i,          \* index in argv of the path being processed
    img,        \* img: the decoded image, a sequence of RGBA pixels
    new_data,   \* new_data of remove_bg.py
    bg,         \* bg of restore_bg.py
    e,          \* the exception raised, "" if none
    stdout,     \* the lines printed
    exitcode,   \* -1 while running, then the exit status
    saved,      \* history: indices in argv whose save() completed
    disk0       \* history: the files as the run found them

vars == <<script, argv, disk, wr, lowmem, pc, i, img, new_data, bg, e,
          stdout, exitcode, saved, disk0>>

-----------------------------------------------------------------------------
(* Bounds of the model *)

MaxArgs == 3        \* longest argument list of the small environments
MaxR == 110         \* largest red value of the AlphaCarve inputs
MaxG == 99          \* largest green value of the AlphaCarve inputs

-----------------------------------------------------------------------------
(* Python float arithmetic: a float is [m, e] with value M * 2^e, where M  *)
(* is the 53-bit integer whose limbs are m: the leading bit alone in limb  *)
(* 1, then four limbs of 13 bits; zero has m[1] = 0.                       *)

MantBits == 53
LimbBits == (MantBits - 1) \div 4
Limb == 2^LimbBits

Min(x, y) == IF x < y THEN x ELSE y
Max(x, y) == IF x > y THEN x ELSE y

\* Scale a and b by powers of two until b <= a < 2b; a/b = (n.a/n.b) * 2^n.e
RECURSIVE Normalize(_, _, _)
Normalize(a, b, x) ==
    IF a < b THEN Normalize(2 * a, b, x - 1)
    ELSE IF a >= 2 * b THEN Normalize(a, 2 * b, x + 1)
    ELSE [a |-> a, b |-> b, e |-> x]

\* The next n limbs of the quotient r/b (r < b), and the remainder left.
RECURSIVE LongDiv(_, _, _, _)
LongDiv(r, b, n, acc) ==
    IF n = 0 THEN [m |-> acc, rem |-> r]
    ELSE LongDiv((r * Limb) % b, b, n - 1, Append(acc, (r * Limb) \div b))

\* m + 1, carrying from limb k up to limb 1.
RECURSIVE Incr(_, _)
Incr(m, k) ==
    IF k = 1 THEN [m EXCEPT ![1] = m[1] + 1]
    ELSE IF m[k] + 1 < Limb THEN [m EXCEPT ![k] = m[k] + 1]
    ELSE Incr([m EXCEPT ![k] = 0], k - 1)

\* Round half to even: m is the significand truncated to 53 bits, guard the
\* first bit dropped, sticky whether any later dropped bit is set.
RoundEven(m, x, guard, sticky) ==
    IF guard = 1 /\ (sticky \/ m[Len(m)] % 2 = 1)
    THEN LET inc == Incr(m, Len(m))
         IN IF inc[1] = 2 THEN [m |-> [inc EXCEPT ![1] = 1], e |-> x + 1]
            ELSE [m |-> inc, e |-> x]
    ELSE [m |-> m, e |-> x]

FloatZero == [m |-> <<0, 0, 0, 0, 0>>, e |-> 0]

\* a / b (true division of ints, a >= 0, b > 0), correctly rounded
FloatDiv(a, b) ==
    IF a = 0 THEN FloatZero
    ELSE LET n == Normalize(a, b, 0)
             q == LongDiv(n.a - n.b, n.b, (MantBits - 1) \div LimbBits, <<1>>)
         IN RoundEven(q.m, n.e - (MantBits - 1),
                      (2 * q.rem) \div n.b, (2 * q.rem) % n.b # 0)

\* k * m on limbs, least significant limb first; the carry ends in limb 1.
RECURSIVE MulLimbs(_, _, _, _)
MulLimbs(k, m, pos, carry) ==
    IF pos = 1 THEN [m EXCEPT ![1] = k * m[1] + carry]
    ELSE LET t == k * m[pos] + carry
         IN MulLimbs(k, [m EXCEPT ![pos] = t % Limb], pos - 1, t \div Limb)

RECURSIVE BitLen(_)
BitLen(n) == IF n = 0 THEN 0 ELSE 1 + BitLen(n \div 2)

\* m shifted right by x < LimbBits bits, limb by limb from the top
RECURSIVE ShiftRight(_, _, _, _)
ShiftRight(m, x, j, acc) ==
    IF j > Len(m) THEN acc
    ELSE ShiftRight(m, x, j + 1,
             Append(acc, m[j] \div 2^x
                         + (IF j = 1 THEN 0
                            ELSE (m[j - 1] % 2^x) * 2^(LimbBits - x))))

\* float(k) * f for an int k >= 0, correctly rounded
FloatMulInt(k, f) ==
    IF k = 0 \/ f.m[1] = 0 THEN FloatZero
    ELSE LET p == MulLimbs(k, f.m, Len(f.m), 0)
             x == BitLen(p[1]) - 1
             dropped == p[Len(p)] % 2^x
         IN IF x = 0 THEN [m |-> p, e |-> f.e]
            ELSE RoundEven(ShiftRight(p, x, 1, <<>>), f.e + x,
                           dropped \div 2^(x - 1), dropped % 2^(x - 1) # 0)

RECURSIVE LimbsToInt(_, _, _)
LimbsToInt(m, n, acc) ==
    IF n = 0 THEN acc ELSE LimbsToInt(Tail(m), n - 1, acc * Limb + Head(m))

\* int(f) for f >= 0: truncation toward zero
FloatToInt(f) ==
    LET s == -f.e
    IN IF f.m[1] = 0 \/ s >= MantBits THEN 0
       ELSE LimbsToInt(f.m, Len(f.m) - s \div LimbBits, 0) \div 2^(s % LimbBits)

-----------------------------------------------------------------------------
(* remove_bg.py: the per-pixel transform *)

LowCut == 18
HighCut == 100
Span == 82
ChannelMax == 255

\* mag = max(r, g, b)
Mag(p) == Max(p[1], Max(p[2], p[3]))

\* Mutation: the alpha is rounded to nearest instead of truncated
NewAlphaRounded(mag) == ((mag - LowCut) * ChannelMax + Span \div 2) \div Span

\* new_alpha = int((mag - 18) / 82 * 255)
NewAlpha(mag) == FloatToInt(FloatMulInt(ChannelMax, FloatDiv(mag - LowCut, Span)))

\* Mutation: the colours are multiplied by the alpha instead of divided by it
FactorInverse(new_alpha) == FloatDiv(IF new_alpha > 0 THEN new_alpha ELSE 1, ChannelMax)

\* Mutation: no brightness boost
FactorOne(new_alpha) == FloatDiv(1, 1)

\* factor = 255.0 / (new_alpha if new_alpha > 0 else 1)
Factor(new_alpha) == FloatDiv(ChannelMax, IF new_alpha > 0 THEN new_alpha ELSE 1)

\* min(255, int(c * factor))
Boost(c, factor) == Min(ChannelMax, FloatToInt(FloatMulInt(c, factor)))

\* Mutation: the transparent band keeps the input alpha
AlphaCarveKeepAlpha(p) ==
    LET mag == Mag(p)
    IN IF mag < LowCut THEN <<0, 0, 0, p[4]>>
       ELSE IF mag < HighCut
       THEN LET new_alpha == NewAlpha(mag)
                factor == Factor(new_alpha)
            IN <<Boost(p[1], factor), Boost(p[2], factor), Boost(p[3], factor),
                 new_alpha>>
       ELSE <<p[1], p[2], p[3], p[4]>>

\* Mutation: the transparent band keeps the input colours
AlphaCarveKeepColour(p) ==
    LET mag == Mag(p)
    IN IF mag < LowCut THEN <<p[1], p[2], p[3], 0>>
       ELSE IF mag < HighCut
       THEN LET new_alpha == NewAlpha(mag)
                factor == Factor(new_alpha)
            IN <<Boost(p[1], factor), Boost(p[2], factor), Boost(p[3], factor),
                 new_alpha>>
       ELSE <<p[1], p[2], p[3], p[4]>>

\* Mutation: the feathered band reaches up to mag = 100 included
AlphaCarveHighIncluded(p) ==
    LET mag == Mag(p)
    IN IF mag < LowCut THEN <<0, 0, 0, 0>>
       ELSE IF mag <= HighCut
       THEN LET new_alpha == NewAlpha(mag)
                factor == Factor(new_alpha)
            IN <<Boost(p[1], factor), Boost(p[2], factor), Boost(p[3], factor),
                 new_alpha>>
       ELSE <<p[1], p[2], p[3], p[4]>>

\* The tuple appended to new_data for the pixel p = (r, g, b, a)
AlphaCarve(p) ==
    LET mag == Mag(p)
    IN IF mag < LowCut THEN <<0, 0, 0, 0>>
       ELSE IF mag < HighCut
       THEN LET new_alpha == NewAlpha(mag)
                factor == Factor(new_alpha)
            IN <<Boost(p[1], factor), Boost(p[2], factor), Boost(p[3], factor),
                 new_alpha>>
       ELSE <<p[1], p[2], p[3], p[4]>>

\* new_data after the loop over img.getdata()
RECURSIVE CarveAll(_)
CarveAll(data) ==
    IF data = <<>> THEN <<>>
    ELSE <<AlphaCarve(Head(data))>> \o CarveAll(Tail(data))

-----------------------------------------------------------------------------
(* restore_bg.py: the per-pixel transform *)

BackgroundColor == <<2, 3, 5, 255>>

\* Mutation: the division by 255 truncates
BlendTruncated(mask, in1, in2) ==
    (in1 * (ChannelMax - mask) + in2 * mask) \div ChannelMax

\* One band of Image.paste with an RGBA mask: in1 is the canvas, in2 the
\* pasted image, mask its alpha; the sum is divided by 255 with a shift.
Blend(mask, in1, in2) ==
    LET tmp == in1 * (ChannelMax - mask) + in2 * mask + 128
    IN (tmp \div 256 + tmp) \div 256

\* bg.paste(img, mask=img) on one pixel of the canvas: all four bands
Paste(canvas, p) ==
    <<Blend(p[4], canvas[1], p[1]), Blend(p[4], canvas[2], p[2]),
      Blend(p[4], canvas[3], p[3]), Blend(p[4], canvas[4], p[4])>>

\* Image.new, paste and convert("RGB") for one pixel
Flatten(p) ==
    LET q == Paste(BackgroundColor, p) IN <<q[1], q[2], q[3]>>

RECURSIVE FlattenAll(_)
FlattenAll(data) ==
    IF data = <<>> THEN <<>>
    ELSE <<Flatten(Head(data))>> \o FlattenAll(Tail(data))

-----------------------------------------------------------------------------
(* Files *)

NoImage == [mode |-> "none", data |-> <<>>]

Decodable(f) == f.mode # "none"

\* convert("RGBA") of one pixel
ToRGBA(mode, p) == IF mode = "RGB" THEN <<p[1], p[2], p[3], ChannelMax>> ELSE p

\* Image.open(path).convert("RGBA")
RECURSIVE ConvertRGBA(_, _)
ConvertRGBA(mode, data) ==
    IF data = <<>> THEN <<>>
    ELSE <<ToRGBA(mode, Head(data))>> \o ConvertRGBA(mode, Tail(data))

-----------------------------------------------------------------------------
(* Initial states: the command line and the environment the run finds *)

Scripts == {"remove_bg", "restore_bg"}
Paths == {"a.png", "b.png"}
WriteModes == {"ok", "denied", "short"}

RECURSIVE ArgLists(_)
ArgLists(n) ==
    IF n = 0 THEN {<<>>}
    ELSE ArgLists(n - 1)
         \cup {Append(s, p) : s \in {t \in ArgLists(n - 1) : Len(t) = n - 1}, p \in Paths}

\* A missing or corrupt file, an RGBA file and an RGB file
SmallFiles ==
    {NoImage,
     [mode |-> "RGBA", data |-> <<<<60, 60, 60, 255>>>>],
     [mode |-> "RGB", data |-> <<<<18, 0, 7>>, <<200, 50, 50>>>>]}

Start(s) ==
    /\ script = s
    /\ pc = IF s = "remove_bg" THEN "open" ELSE "argv"
    /\ i = 1
    /\ img = <<>>
    /\ new_data = <<>>
    /\ bg = <<>>
    /\ e = ""
    /\ stdout = <<>>
    /\ exitcode = -1
    /\ saved = {}

\* Either script, on any short argument list, in any small environment
Init ==
    /\ \E s \in Scripts : Start(s)
    /\ argv \in ArgLists(MaxArgs)
    /\ disk \in [Paths -> SmallFiles]
    /\ wr \in [Paths -> WriteModes]
    /\ lowmem \in BOOLEAN
    /\ disk0 = disk

\* RGBA inputs of AlphaCarve: one-pixel images over a grid of colours, and
\* two-pixel images of feathered-band pixels
CarvePixels ==
    {<<r, g, b, a>> : r \in 0..MaxR, g \in 0..MaxG,
                      b \in {0, 60}, a \in {0, ChannelMax}}

CarveImages ==
    {<<p>> : p \in CarvePixels}
    \cup {<<<<m, 0, 0, ChannelMax>>, <<3, n, 0, 77>>>> :
             m \in LowCut..(HighCut - 1), n \in LowCut..(HighCut - 1)}

\* remove_bg.py a.png a.png: the file is carved, then carved again
InitCarve ==
    /\ Start("remove_bg")
    /\ argv = <<"a.png", "a.png">>
    /\ \E d \in CarveImages :
          disk = [p \in Paths |-> IF p = "a.png" THEN [mode |-> "RGBA", data |-> d]
                                  ELSE NoImage]
    /\ wr = [p \in Paths |-> "ok"]
    /\ lowmem = FALSE
    /\ disk0 = disk

\* RGBA inputs of BackgroundFlatten: every (colour, alpha) pair in each band
FlattenPixels ==
    {<<c, ChannelMax - c, (c + 100) % (ChannelMax + 1), a>> :
        c \in 0..ChannelMax, a \in 0..ChannelMax}

\* restore_bg.py a.png
InitFlatten ==
    /\ Start("restore_bg")
    /\ argv = <<"a.png">>
    /\ \E p \in FlattenPixels :
          disk = [q \in Paths |-> IF q = "a.png" THEN [mode |-> "RGBA", data |-> <<p>>]
                                  ELSE NoImage]
    /\ wr = [p \in Paths |-> "ok"]
    /\ lowmem = FALSE
    /\ disk0 = disk

-----------------------------------------------------------------------------
(* remove_bg.py *)

\* line 6: Image.open(path).convert("RGBA") succeeds
RbOpen ==
    /\ script = "remove_bg" /\ pc = "open" /\ i <= Len(argv)
    /\ Decodable(disk[argv[i]])
    /\ img' = ConvertRGBA(disk[argv[i]].mode, disk[argv[i]].data)
    /\ pc' = "carve"
    /\ UNCHANGED <<script, argv, disk, wr, lowmem, i, new_data, bg, e, stdout,
                   exitcode, saved, disk0>>

\* line 6 raises: bad path, corrupt file, unsupported format
RbOpenFail ==
    /\ script = "remove_bg" /\ pc = "open" /\ i <= Len(argv)
    /\ ~Decodable(disk[argv[i]])
    /\ e' = "decode"
    /\ pc' = "except"
    /\ UNCHANGED <<script, argv, disk, wr, lowmem, i, img, new_data, bg, stdout,
                   exitcode, saved, disk0>>

\* lines 7-23: the loop over the pixels builds new_data
RbCarve ==
    /\ script = "remove_bg" /\ pc = "carve"
    /\ ~lowmem
    /\ new_data' = CarveAll(img)
    /\ pc' = "save"
    /\ UNCHANGED <<script, argv, disk, wr, lowmem, i, img, bg, e, stdout,
                   exitcode, saved, disk0>>

\* lines 7-23 raise MemoryError
RbCarveFail ==
    /\ script = "remove_bg" /\ pc = "carve"
    /\ lowmem
    /\ e' = "memory"
    /\ pc' = "except"
    /\ UNCHANGED <<script, argv, disk, wr, lowmem, i, img, new_data, bg, stdout,
                   exitcode, saved, disk0>>

\* lines 24-25: img.putdata(new_data); img.save(path, "PNG") succeeds
RbSave ==
    /\ script = "remove_bg" /\ pc = "save"
    /\ wr[argv[i]] = "ok"
    /\ img' = new_data
    /\ disk' = [disk EXCEPT ![argv[i]] = [mode |-> "RGBA", data |-> new_data]]
    /\ saved' = saved \cup {i}
    /\ pc' = "print"
    /\ UNCHANGED <<script, argv, wr, lowmem, i, new_data, bg, e, stdout, exitcode, disk0>>

\* line 25 raises: the path cannot be opened for writing (the file is left
\* as it was), or the write fails part-way (the file is left corrupt)
RbSaveFail ==
    /\ script = "remove_bg" /\ pc = "save"
    /\ wr[argv[i]] # "ok"
    /\ img' = new_data
    /\ disk' = IF wr[argv[i]] = "short" THEN [disk EXCEPT ![argv[i]] = NoImage]
               ELSE disk
    /\ e' = "encode"
    /\ pc' = "except"
    /\ UNCHANGED <<script, argv, wr, lowmem, i, new_data, bg, stdout, exitcode,
                   saved, disk0>>

\* line 26: print("Processed " + path), then the next path
RbPrint ==
    /\ script = "remove_bg" /\ pc = "print"
    /\ stdout' = Append(stdout, <<"Processed", argv[i]>>)
    /\ i' = i + 1
    /\ pc' = "open"
    /\ UNCHANGED <<script, argv, disk, wr, lowmem, img, new_data, bg, e,
                   exitcode, saved, disk0>>

\* Mutation: the exception is reported and ends the run
RbExceptFatal ==
    /\ script = "remove_bg" /\ pc = "except"
    /\ stdout' = Append(stdout, <<"Error on", argv[i], e>>)
    /\ pc' = "done"
    /\ exitcode' = 1
    /\ UNCHANGED <<script, argv, disk, wr, lowmem, i, img, new_data, bg, e, saved,
                   disk0>>

\* lines 27-28: except Exception as e: print(...), then the next path
RbExcept ==
    /\ script = "remove_bg" /\ pc = "except"
    /\ stdout' = Append(stdout, <<"Error on", argv[i], e>>)
    /\ e' = ""
    /\ i' = i + 1
    /\ pc' = "open"
    /\ UNCHANGED <<script, argv, disk, wr, lowmem, img, new_data, bg, exitcode,
                   saved, disk0>>

\* line 4: the for loop is exhausted and the script ends
RbExit ==
    /\ script = "remove_bg" /\ pc = "open" /\ i > Len(argv)
    /\ pc' = "done"
    /\ exitcode' = 0
    /\ UNCHANGED <<script, argv, disk, wr, lowmem, i, img, new_data, bg, e,
                   stdout, saved, disk0>>

-----------------------------------------------------------------------------
(* restore_bg.py *)

\* An uncaught exception: traceback, exit status 1
Abort(exc) ==
    /\ e' = exc
    /\ pc' = "done"
    /\ exitcode' = 1

\* line 4: path = sys.argv[1]
RsArgv ==
    /\ script = "restore_bg" /\ pc = "argv"
    /\ Len(argv) >= 1
    /\ pc' = "open"
    /\ UNCHANGED <<script, argv, disk, wr, lowmem, i, img, new_data, bg, e,
                   stdout, exitcode, saved, disk0>>

\* line 4 raises IndexError
RsArgvFail ==
    /\ script = "restore_bg" /\ pc = "argv"
    /\ Len(argv) = 0
    /\ Abort("index")
    /\ UNCHANGED <<script, argv, disk, wr, lowmem, i, img, new_data, bg, stdout,
                   saved, disk0>>

\* line 5: Image.open(path).convert("RGBA") succeeds
RsOpen ==
    /\ script = "restore_bg" /\ pc = "open"
    /\ Decodable(disk[argv[1]])
    /\ img' = ConvertRGBA(disk[argv[1]].mode, disk[argv[1]].data)
    /\ pc' = "flatten"
    /\ UNCHANGED <<script, argv, disk, wr, lowmem, i, new_data, bg, e, stdout,
                   exitcode, saved, disk0>>

\* line 5 raises
RsOpenFail ==
    /\ script = "restore_bg" /\ pc = "open"
    /\ ~Decodable(disk[argv[1]])
    /\ Abort("decode")
    /\ UNCHANGED <<script, argv, disk, wr, lowmem, i, img, new_data, bg, stdout,
                   saved, disk0>>

\* lines 8-10: Image.new, bg.paste(img, mask=img), bg.convert("RGB")
RsFlatten ==
    /\ script = "restore_bg" /\ pc = "flatten"
    /\ ~lowmem
    /\ bg' = FlattenAll(img)
    /\ pc' = "save"
    /\ UNCHANGED <<script, argv, disk, wr, lowmem, i, img, new_data, e, stdout,
                   exitcode, saved, disk0>>

\* lines 8-10 raise MemoryError
RsFlattenFail ==
    /\ script = "restore_bg" /\ pc = "flatten"
    /\ lowmem
    /\ Abort("memory")
    /\ UNCHANGED <<script, argv, disk, wr, lowmem, i, img, new_data, bg, stdout,
                   saved, disk0>>

\* line 11: bg.save(path, "PNG", quality=100) succeeds
RsSave ==
    /\ script = "restore_bg" /\ pc = "save"
    /\ wr[argv[1]] = "ok"
    /\ disk' = [disk EXCEPT ![argv[1]] = [mode |-> "RGB", data |-> bg]]
    /\ saved' = saved \cup {1}
    /\ pc' = "print"
    /\ UNCHANGED <<script, argv, wr, lowmem, i, img, new_data, bg, e, stdout,
                   exitcode, disk0>>

\* Mutation: the failure of save() is swallowed and the script goes on
RsSaveFailIgnored ==
    /\ script = "restore_bg" /\ pc = "save"
    /\ wr[argv[1]] # "ok"
    /\ pc' = "print"
    /\ UNCHANGED <<script, argv, disk, wr, lowmem, i, img, new_data, bg, e, stdout,
                   exitcode, saved, disk0>>

\* line 11 raises
RsSaveFail ==
    /\ script = "restore_bg" /\ pc = "save"
    /\ wr[argv[1]] # "ok"
    /\ disk' = IF wr[argv[1]] = "short" THEN [disk EXCEPT ![argv[1]] = NoImage]
               ELSE disk
    /\ Abort("encode")
    /\ UNCHANGED <<script, argv, wr, lowmem, i, img, new_data, bg, stdout, saved, disk0>>

\* line 12: print(f"Restored black background on {path}"), end of script
RsPrint ==
    /\ script = "restore_bg" /\ pc = "print"
    /\ stdout' = Append(stdout, <<"Restored black background on", argv[1]>>)
    /\ pc' = "done"
    /\ exitcode' = 0
    /\ UNCHANGED <<script, argv, disk, wr, lowmem, i, img, new_data, bg, e, saved, disk0>>

-----------------------------------------------------------------------------

Next ==
    \/ RbOpen \/ RbOpenFail \/ RbCarve \/ RbCarveFail \/ RbSave \/ RbSaveFail
    \/ RbPrint \/ RbExcept \/ RbExit
    \/ RsArgv \/ RsArgvFail \/ RsOpen \/ RsOpenFail \/ RsFlatten \/ RsFlattenFail
    \/ RsSave \/ RsSaveFail \/ RsPrint

\* Both scripts in the small environments
Spec == Init /\ [][Next]_vars

\* The same, and remove_bg.py twice over each AlphaCarve input
SpecCarve == (Init \/ InitCarve) /\ [][Next]_vars

\* The same, and restore_bg.py over each BackgroundFlatten input
SpecFlatten == (Init \/ InitFlatten) /\ [][Next]_vars

-----------------------------------------------------------------------------
(* Properties.  While remove_bg.py is at "save", img holds the pixels as   *)
(* decoded and new_data the pixels about to be written; while              *)
(* restore_bg.py is at "save", img holds the pixels as decoded and bg the  *)
(* flattened pixels about to be written.                                   *)

Carved == script = "remove_bg" /\ pc = "save"
Flattened == script = "restore_bg" /\ pc = "save"
Feathered(p) == LowCut <= Mag(p) /\ Mag(p) < HighCut

\* The path now being processed was already saved by this run
Reprocessed == \E j \in saved : j < i /\ argv[j] = argv[i]

\* The pixels of the current path as the run first decoded them
Original == ConvertRGBA(disk0[argv[i]].mode, disk0[argv[i]].data)

\* round(x / 255) for an integer x >= 0 (255 is odd: there are no ties)
Round255(x) == (2 * x + ChannelMax) \div (2 * ChannelMax)

\* C1: every pixel whose max(r,g,b) is below 18 is written as (0,0,0,0),
\* whatever its alpha was.
C1_TransparentBand ==
    Carved => \A k \in 1..Len(img) :
                  Mag(img[k]) < 18 => new_data[k] = <<0, 0, 0, 0>>

C1_Witness ==
    /\ Carved
    /\ \E k \in 1..Len(img) : Mag(img[k]) = 17 /\ img[k][4] = 255
                              /\ new_data[k] = <<0, 0, 0, 0>>

\* C2: every pixel whose max(r,g,b) is at least 100 is written unchanged in
\* all four channels, the alpha included.
C2_OpaqueBand ==
    Carved => \A k \in 1..Len(img) : Mag(img[k]) >= 100 => new_data[k] = img[k]

C2_Witness ==
    /\ Carved
    /\ \E k \in 1..Len(img) : Mag(img[k]) = 100 /\ img[k][4] = 0
                              /\ new_data[k] = img[k]

\* C3: for a pixel with 18 <= mag < 100 the alpha written is
\* floor((mag-18)*255/82), whatever the input alpha; it lies in 0..255 and
\* does not decrease as mag increases.
C3_FeatheredAlpha ==
    Carved =>
      \A k \in 1..Len(img) :
        Feathered(img[k]) =>
          /\ new_data[k][4] = ((Mag(img[k]) - 18) * 255) \div 82
          /\ new_data[k][4] \in 0..255
          /\ \A n \in 1..Len(img) :
                Feathered(img[n]) /\ Mag(img[k]) <= Mag(img[n])
                    => new_data[k][4] <= new_data[n][4]

C3_Witness ==
    /\ Carved
    /\ Len(img) = 2
    /\ Mag(img[1]) = 60 /\ img[1][4] = 255 /\ new_data[1][4] = 130
    /\ Mag(img[2]) = 99 /\ img[2][4] = 77 /\ new_data[2][4] = 251

\* C4: for a pixel with 18 <= mag < 100 each colour written is
\* min(255, trunc(c * 255 / new_alpha)), with 255 / 1 in place of 255 / 0,
\* and new_alpha is 0 only at mag = 18; (60,60,60,255) gives
\* (117,117,117,130).
C4_FeatheredColour ==
    Carved =>
      \A k \in 1..Len(img) :
        Feathered(img[k]) =>
          LET new_alpha == new_data[k][4]
              d == IF new_alpha > 0 THEN new_alpha ELSE 1
          IN /\ \A c \in 1..3 :
                   new_data[k][c] = Min(255, (img[k][c] * 255) \div d)
             /\ new_alpha = 0 => Mag(img[k]) = 18
             /\ img[k] = <<60, 60, 60, 255>> => new_data[k] = <<117, 117, 117, 130>>

\* C5 as stated: every pixel written with alpha 0 has its colours zeroed.
C5_ZeroAlphaZeroColour ==
    Carved => \A k \in 1..Len(img) :
                  new_data[k][4] = 0 => new_data[k] = <<0, 0, 0, 0>>

\* C5 as amended: a pixel written with alpha 0 has its colours zeroed unless
\* its input had mag = 18 (each non-zero colour is then written as 255) or
\* its input was an opaque-band pixel whose own alpha was 0 (written as is).
C5_ZeroAlphaAmended ==
    Carved =>
      \A k \in 1..Len(img) :
        new_data[k][4] = 0 =>
          \/ new_data[k] = <<0, 0, 0, 0>>
          \/ /\ Mag(img[k]) = 18
             /\ \A c \in 1..3 : new_data[k][c] = IF img[k][c] > 0 THEN 255 ELSE 0
          \/ Mag(img[k]) >= 100 /\ img[k][4] = 0 /\ new_data[k] = img[k]

C5_Witness ==
    /\ Carved
    /\ \E k \in 1..Len(img) : /\ Mag(img[k]) < 18 /\ Mag(img[k]) > 0
                              /\ new_data[k] = <<0, 0, 0, 0>>

\* The RGBA pixels of the files the run found
InputPixels ==
    UNION {{ToRGBA(disk0[q].mode, disk0[q].data[k]) : k \in 1..Len(disk0[q].data)} :
           q \in Paths}

\* C6 as stated: some input pixel changes again when AlphaCarve is applied
\* to its output.
C6_NotIdempotent ==
    \E p \in CarvePixels \cup InputPixels :
        AlphaCarve(AlphaCarve(p)) # AlphaCarve(p)

\* C6 as amended: re-running on an already-processed image is a no-op for
\* every pixel; each pixel of a processed image is (0,0,0,0) or lies in the
\* opaque band.
C6_Idempotent ==
    Carved /\ Reprocessed =>
      /\ new_data = img
      /\ \A k \in 1..Len(img) : img[k] = <<0, 0, 0, 0>> \/ Mag(img[k]) >= 100

C6_Witness ==
    /\ Carved /\ Reprocessed
    /\ Original = <<<<60, 60, 60, 255>>>>
    /\ img = <<<<117, 117, 117, 130>>>>
    /\ new_data = img

\* C7: each colour written by restore_bg.py is
\* round((src * a + bg * (255 - a)) / 255) over the background (2,3,5), the
\* pixel has three channels; alpha 255 gives the source colour, alpha 0
\* gives (2,3,5).
C7_Compositing ==
    Flattened =>
      /\ Len(bg) = Len(img)
      /\ \A k \in 1..Len(img) :
           LET a == img[k][4]
           IN /\ Len(bg[k]) = 3
              /\ \A c \in 1..3 :
                    bg[k][c] = Round255(img[k][c] * a + <<2, 3, 5>>[c] * (255 - a))
              /\ a = 255 => bg[k] = <<img[k][1], img[k][2], img[k][3]>>
              /\ a = 0 => bg[k] = <<2, 3, 5>>

C7_Witness ==
    /\ Flattened
    /\ img = <<<<100, 155, 200, 128>>>>
    /\ bg[1][1] = 51

\* The report of remove_bg.py so far: one line per path already left behind
C8_Report ==
    script = "remove_bg" =>
      /\ Len(stdout) = i - 1
      /\ \A j \in 1..Len(stdout) :
            /\ j \in saved <=> stdout[j] = <<"Processed", argv[j]>>
            /\ j \notin saved => /\ Len(stdout[j]) = 3
                                 /\ stdout[j][1] = "Error on"
                                 /\ stdout[j][2] = argv[j]
      /\ exitcode \in {-1, 0}
      /\ pc = "done" => Len(stdout) = Len(argv) /\ exitcode = 0
      /\ pc \in {"carve", "save", "print", "except"} => i <= Len(argv)

\* The end of an iteration of remove_bg.py, failed or not: one more line, and
\* on to the next path
C8_Step ==
    script = "remove_bg" /\ pc \in {"print", "except"} =>
        /\ pc' = "open" /\ i' = i + 1
        /\ Len(stdout') = Len(stdout) + 1
        /\ pc = "print" <=> i \in saved

\* C8: remove_bg.py prints exactly one line per path, in argument order,
\* "Processed" exactly for the paths whose save completed and "Error on"
\* for the others; a failure is followed by the next path, and the run ends
\* only after the last path, with exit status 0.
C8_BatchContinues ==
    /\ []C8_Report
    /\ [][C8_Step]_vars

C8_Witness ==
    /\ script = "remove_bg" /\ pc = "done"
    /\ Len(stdout) = 3
    /\ stdout[1][1] = "Error on" /\ stdout[1][3] = "encode"
    /\ stdout[2][1] = "Processed"
    /\ stdout[3][1] = "Error on" /\ stdout[3][3] = "decode"

\* What restore_bg.py has printed and written, given what failed
C9_Outcome ==
    script = "restore_bg" =>
      /\ stdout # <<>> =>
            /\ stdout = <<<<"Restored black background on", argv[1]>>>>
            /\ saved = {1} /\ exitcode = 0 /\ pc = "done"
      /\ exitcode = 1 => pc = "done" /\ stdout = <<>> /\ saved = {}
      /\ pc = "done" /\ Len(argv) >= 1 =>
            IF ~Decodable(disk0[argv[1]])
            THEN exitcode = 1 /\ e = "decode" /\ disk = disk0 /\ bg = <<>>
            ELSE IF lowmem
            THEN exitcode = 1 /\ e = "memory" /\ disk = disk0 /\ bg = <<>>
            ELSE IF wr[argv[1]] # "ok"
            THEN exitcode = 1 /\ e = "encode"
            ELSE exitcode = 0 /\ disk[argv[1]] = [mode |-> "RGB", data |-> bg]

\* C9: a failure of restore_bg.py at decoding, compositing or saving ends
\* the run there with an error status and nothing printed, and no step
\* follows; the "Restored" line is printed only after the save completed; a
\* decode failure leaves the file as it was.
C9_FailureIsFatal ==
    /\ []C9_Outcome
    /\ [][script = "restore_bg" => exitcode # 1]_vars

C9_Witness ==
    /\ script = "restore_bg" /\ pc = "done"
    /\ exitcode = 1 /\ e = "encode"
    /\ bg # <<>> /\ stdout = <<>>

\* C10: a pixel with 18 <= mag < 100 is written with a max colour that is
\* greater than its mag and at least 100, and when the file is processed
\* again that pixel is in the opaque band and is left unchanged.
C10_SecondPass ==
    Carved =>
      /\ \A k \in 1..Len(img) :
            Feathered(img[k]) =>
                Mag(new_data[k]) > Mag(img[k]) /\ Mag(new_data[k]) >= 100
      /\ Reprocessed =>
            \A k \in 1..Len(img) :
                Feathered(Original[k]) =>
                    /\ Mag(img[k]) > Mag(Original[k])
                    /\ Mag(img[k]) >= 100
                    /\ new_data[k] = img[k]

C10_Witness ==
    /\ Carved /\ Reprocessed
    /\ Mag(Original[1]) = 99
    /\ Mag(img[1]) = 100
    /\ new_data = img

====
